---- MODULE Spec2Model ----
(***************************************************************************)
(* A model of convert_to_wav.py: the triage passes of process_audio_files, *)
(* the validation gate, the execution loops and the report tally.          *)
(*                                                                         *)
(* A file name is a sequence of one-character strings, so that the string  *)
(* transforms of the program (splitext, lower, the regular expressions)    *)
(* are computed character by character as the program computes them.       *)
(***************************************************************************)
EXTENDS Integers, Sequences, FiniteSets, TLC

(***************************************************************************)
(* Characters and elementary string operations                             *)
(***************************************************************************)
Digits == {"0", "1", "2", "3", "4", "5", "6", "7", "8", "9"}

\* the characters \s and str.strip() treat as white space
Whitespace == {" ", "\t", "\n", "\r", "\f"}

UpperCase == <<"A", "B", "C", "D", "E", "F", "G", "H", "I", "J", "K", "L", "M",
               "N", "O", "P", "Q", "R", "S", "T", "U", "V", "W", "X", "Y", "Z">>

LowerCase == <<"a", "b", "c", "d", "e", "f", "g", "h", "i", "j", "k", "l", "m",
               "n", "o", "p", "q", "r", "s", "t", "u", "v", "w", "x", "y", "z">>

LowerChar(c) ==
    IF \E i \in DOMAIN UpperCase : UpperCase[i] = c
    THEN LowerCase[CHOOSE i \in DOMAIN UpperCase : UpperCase[i] = c]
    ELSE c

\* str.lower()
lower(s) == [i \in 1..Len(s) |-> LowerChar(s[i])]

\* s[i:] starts with t
StartsAt(s, i, t) ==
    /\ i >= 1
    /\ i + Len(t) - 1 <= Len(s)
    /\ \A k \in 1..Len(t) : s[i + k - 1] = t[k]

\* t in s
Contains(s, t) == \E i \in 1..Len(s) : StartsAt(s, i, t)

\* s.endswith(t)
EndsWith(s, t) == Len(t) <= Len(s) /\ StartsAt(s, Len(s) - Len(t) + 1, t)

\* the characters of s that are not in the set cs, in order
RECURSIVE Without(_, _)
Without(s, cs) ==
    IF s = <<>> THEN <<>>
    ELSE IF Head(s) \in cs THEN Without(Tail(s), cs)
    ELSE <<Head(s)>> \o Without(Tail(s), cs)

\* s.lstrip(cs), s.rstrip(cs), s.strip()
RECURSIVE LStrip(_, _)
LStrip(s, cs) ==
    IF s # <<>> /\ Head(s) \in cs THEN LStrip(Tail(s), cs) ELSE s

RECURSIVE RStrip(_, _)
RStrip(s, cs) ==
    IF s # <<>> /\ s[Len(s)] \in cs THEN RStrip(SubSeq(s, 1, Len(s) - 1), cs) ELSE s

strip(s) == RStrip(LStrip(s, Whitespace), Whitespace)

\* the end of the longest run of characters of cs that starts at i (i - 1 when empty)
RECURSIVE RunEnd(_, _, _)
RunEnd(s, i, cs) ==
    IF i <= Len(s) /\ s[i] \in cs THEN RunEnd(s, i + 1, cs) ELSE i - 1

\* re.sub(r'<cs>+', rep, s): every maximal run of characters of cs becomes rep
RECURSIVE SubRuns(_, _, _)
SubRuns(s, cs, rep) ==
    IF s = <<>> THEN <<>>
    ELSE IF Head(s) \in cs
         THEN rep \o SubRuns(SubSeq(s, RunEnd(s, 1, cs) + 1, Len(s)), cs, rep)
         ELSE <<Head(s)>> \o SubRuns(Tail(s), cs, rep)

\* str.replace(t, ''): the occurrences of t, left to right without overlap
RECURSIVE Remove(_, _)
Remove(s, t) ==
    IF s = <<>> THEN <<>>
    ELSE IF StartsAt(s, 1, t) THEN Remove(SubSeq(s, Len(t) + 1, Len(s)), t)
    ELSE <<Head(s)>> \o Remove(Tail(s), t)

\* os.path.basename
RECURSIVE basename(_)
basename(p) ==
    IF \E i \in 1..Len(p) : p[i] = "/"
    THEN basename(Tail(p))
    ELSE p

\* os.path.splitext: the split is at the last dot, unless only dots precede it
splitext(p) ==
    LET dots == {i \in 1..Len(p) : p[i] = "."}
        d    == IF dots = {} THEN 0 ELSE CHOOSE i \in dots : \A j \in dots : j <= i
    IN  IF d > 0 /\ \E k \in 1..(d - 1) : p[k] # "."
        THEN <<SubSeq(p, 1, d - 1), SubSeq(p, d, Len(p))>>
        ELSE <<p, <<>>>>

(***************************************************************************)
(* String literals of the program                                          *)
(***************************************************************************)
S_with == <<"w", "i", "t", "h">>
S_vox == <<"v", "o", "x">>
S_khz == <<"k", "h", "z">>
S_bit == <<"b", "i", "t">>
S_short == <<"s", "h", "o", "r", "t">>
S_long == <<"l", "o", "n", "g">>
S_longer == <<"l", "o", "n", "g", "e", "r">>
S_no_vox == <<"n", "o", " ", "v", "o", "x">>
S_intrumrntal == <<"i", "n", "t", "r", "u", "m", "r", "n", "t", "a", "l">>
S_instrumental == <<"i", "n", "s", "t", "r", "u", "m", "e", "n", "t", "a", "l">>
S_no_vocals == <<"n", "o", " ", "v", "o", "c", "a", "l", "s">>
S_mp3 == <<".", "m", "p", "3">>
S_wav == <<".", "w", "a", "v">>

\* the manual reasons
VocalOrInstrumental == "Vocal or Instrumental?"
Versioning == "Versioning"
LengthVariant == "Length variant"
NumericFilename == "Numeric filename"
Unknown == "Unknown"

(***************************************************************************)
(* The regular expressions of the program                                  *)
(***************************************************************************)
\* r'(?:with|with_|\+|\+ ).*vox' matched at position i: where the text after
\* the first alternative that matches begins (0: no alternative matches at i)
VoxAltEnd(s, i) ==
    IF StartsAt(s, i, S_with) THEN i + 4
    ELSE IF StartsAt(s, i, <<"+">>) THEN i + 1
    ELSE 0

\* the starts j of a 'vox' that '.*' can reach from position a: '.' matches
\* any character but a line break
VoxReach(s, a) ==
    {j \in a..Len(s) : StartsAt(s, j, S_vox) /\ \A k \in a..(j - 1) : s[k] # "\n"}

VoxMatchAt(s, i) == VoxAltEnd(s, i) # 0 /\ VoxReach(s, VoxAltEnd(s, i)) # {}

\* re.search(r'(?:with|with_|\+|\+ ).*vox', s)
vox_search(s) == \E i \in 1..Len(s) : VoxMatchAt(s, i)

\* re.sub(r'(?:with|with_|\+|\+ ).*vox', '', s, count): the leftmost match,
\* '.*' greedy (up to the last 'vox' it can reach), at most count times
RECURSIVE vox_sub(_, _)
vox_sub(s, count) ==
    IF count = 0 \/ ~vox_search(s) THEN s
    ELSE LET i == CHOOSE k \in 1..Len(s) :
                      VoxMatchAt(s, k) /\ \A m \in 1..(k - 1) : ~VoxMatchAt(s, m)
             r == VoxReach(s, VoxAltEnd(s, i))
             j == CHOOSE k \in r : \A m \in r : m <= k
         IN  SubSeq(s, 1, i - 1) \o vox_sub(SubSeq(s, j + 3, Len(s)), count - 1)

\* re.IGNORECASE, which find_with_vox_pairs and validate_file_lists hand to
\* re.sub in the position of its count argument
RE_IGNORECASE == 2

\* re.search(r'v\d+', s)
version_search(s) == \E i \in 1..(Len(s) - 1) : s[i] = "v" /\ s[i + 1] \in Digits

\* re.sub(r'\d+\s*<unit>', '', s, flags=re.IGNORECASE)
RECURSIVE sub_spec(_, _)
sub_spec(s, unit) ==
    IF s = <<>> THEN <<>>
    ELSE LET d == RunEnd(s, 1, Digits)
             w == RunEnd(s, d + 1, Whitespace)
         IN  IF d >= 1 /\ StartsAt(lower(s), w + 1, unit)
             THEN sub_spec(SubSeq(s, w + Len(unit) + 1, Len(s)), unit)
             ELSE <<Head(s)>> \o sub_spec(Tail(s), unit)

\* re.sub(r'-\d+', '', s)
RECURSIVE sub_hyphen_digits(_)
sub_hyphen_digits(s) ==
    IF s = <<>> THEN <<>>
    ELSE IF Head(s) = "-" /\ RunEnd(s, 2, Digits) >= 2
         THEN sub_hyphen_digits(SubSeq(s, RunEnd(s, 2, Digits) + 1, Len(s)))
         ELSE <<Head(s)>> \o sub_hyphen_digits(Tail(s))

\* re.sub(r'[\d_]+$', '', s): '$' is the end of the string, or the place
\* before a line break that ends the string
sub_trailing_digits(s) ==
    IF s # <<>> /\ s[Len(s)] = "\n"
    THEN RStrip(SubSeq(s, 1, Len(s) - 1), Digits \cup {"_"}) \o <<"\n">>
    ELSE RStrip(s, Digits \cup {"_"})

(***************************************************************************)
(* The helper functions of the program                                     *)
(***************************************************************************)
\* f.lower().endswith(('.mp3', '.wav'))
is_audio(filename) ==
    EndsWith(lower(filename), S_mp3) \/ EndsWith(lower(filename), S_wav)

is_numeric_filename(filename) ==
    LET name_without_ext == splitext(filename)[1]
        digits == Without(name_without_ext, {" "})
    IN  digits # <<>> /\ \A i \in 1..Len(digits) : digits[i] \in Digits

is_versioned(filename) == version_search(lower(filename))

is_length_variant(filename) ==
    \E variant \in {S_short, S_long, S_longer} : Contains(lower(filename), variant)

should_move_to_manual(filename) ==
    \/ is_versioned(filename)
    \/ is_length_variant(filename)
    \/ is_numeric_filename(filename)

is_instrumental(filename) ==
    \E indicator \in {S_no_vox, S_intrumrntal, S_instrumental, S_no_vocals} :
        Contains(lower(filename), lower(indicator))

clean_filename(filename, is_instrumental_track, artist_prefix) ==
    LET n0 == splitext(filename)[1]
        n1 == sub_spec(n0, S_khz)
        n2 == sub_spec(n1, S_bit)
        n3 == sub_hyphen_digits(n2)
        n4 == RStrip(n3, {"-"})
        n5 == sub_trailing_digits(n4)
        n6 == Without(n5, {"\\", "/", "*", "?", ":", "\"", "<", ">", "|"})
        n7 == SubRuns(strip(n6), Whitespace, <<"_">>)
        n8 == lower(n7)
        n9 == SubRuns(n8, {"_"}, <<"_">>)
        n10 == RStrip(n9, {"_"})
        n11 == Remove(n10, S_instrumental)
        n12 == IF artist_prefix # <<>> THEN artist_prefix \o <<"_">> \o n11 ELSE n11
        n13 == IF is_instrumental_track THEN n12 \o S_instrumental ELSE n12
    IN  n13 \o S_wav

\* the grouping key of find_with_vox_pairs and validate_file_lists
vox_key(name) == SubRuns(strip(vox_sub(name, RE_IGNORECASE)), Whitespace, <<" ">>)

\* the grouping key of the versioning-conflict pass
clean_base(file) == strip(Without(splitext(file)[1], Digits))

S_with_vox == S_with \o <<"_">> \o S_vox
S_plus_vox == <<"+", "_">> \o S_vox
S_with_space_vox == S_with \o <<" ">> \o S_vox
S_plus_space_vox == <<"+", " ">> \o S_vox

\* str.strip(cs)
strip_chars(s, cs) == RStrip(LStrip(s, cs), cs)

clean_base_name(filename) ==
    LET name == lower(splitext(filename)[1])
        n1   == Remove(Remove(name, S_with_vox), S_plus_vox)
        n2   == Remove(Remove(n1, S_with_space_vox), S_plus_space_vox)
    IN  strip_chars(SubRuns(n2, {"_"}, <<"_">>), {"_"})

(***************************************************************************)
(* File names                                                              *)
(*                                                                         *)
(* A file is known by its name, a string; TLC cannot take a string apart,  *)
(* so chars gives the characters of each name the model uses.              *)
(***************************************************************************)
NameChars ==
    ("song.mp3" :>
        <<"s", "o", "n", "g", ".", "m", "p", "3">>) @@
    ("song with vox.mp3" :>
        <<"s", "o", "n", "g", " ", "w", "i", "t", "h", " ", "v", "o", "x", ".", "m", "p", "3">>) @@
    ("song_with_vox-998213.mp3" :>
        <<"s", "o", "n", "g", "_", "w", "i", "t", "h", "_", "v", "o", "x", "-", "9", "9", "8", "2", "1", "3", ".", "m", "p", "3">>) @@
    ("song (2020).mp3" :>
        <<"s", "o", "n", "g", " ", "(", "2", "0", "2", "0", ")", ".", "m", "p", "3">>) @@
    ("song no vox.mp3" :>
        <<"s", "o", "n", "g", " ", "n", "o", " ", "v", "o", "x", ".", "m", "p", "3">>) @@
    ("song1.mp3" :>
        <<"s", "o", "n", "g", "1", ".", "m", "p", "3">>) @@
    ("song2.mp3" :>
        <<"s", "o", "n", "g", "2", ".", "m", "p", "3">>) @@
    ("Song1.mp3" :>
        <<"S", "o", "n", "g", "1", ".", "m", "p", "3">>) @@
    ("99.mp3" :>
        <<"9", "9", ".", "m", "p", "3">>) @@
    ("long v2.mp3" :>
        <<"l", "o", "n", "g", " ", "v", "2", ".", "m", "p", "3">>) @@
    ("longer.wav" :>
        <<"l", "o", "n", "g", "e", "r", ".", "w", "a", "v">>)

\* the file names an input directory is filled from
FileNames == DOMAIN NameChars

chars(file) == NameChars[file]

(***************************************************************************)
(* find_with_vox_pairs                                                     *)
(***************************************************************************)
\* is_vox of find_with_vox_pairs: the pattern is looked for in the lower-cased
\* name without its extension and without its digits
is_vox(file) ==
    LET name == lower(splitext(basename(file))[1])
        name_no_numbers == strip(Without(name, Digits))
    IN  vox_search(name_no_numbers)

\* key of find_with_vox_pairs: the pattern is cut out of the name with digits
pair_key(file) == vox_key(lower(splitext(basename(file))[1]))

\* a slip: the length variants are looked for before the version numbers
heuristic_reason_length_first(file) ==
    IF is_length_variant(file) THEN LengthVariant
    ELSE IF version_search(lower(file)) THEN Versioning
    ELSE IF is_numeric_filename(file) THEN NumericFilename
    ELSE Unknown

\* the reason the third pass gives a file that should_move_to_manual
heuristic_reason(file) ==
    IF version_search(lower(file)) THEN Versioning
    ELSE IF is_length_variant(file) THEN LengthVariant
    ELSE IF is_numeric_filename(file) THEN NumericFilename
    ELSE Unknown

\* key of validate_file_lists
validate_key(file) == vox_key(lower(splitext(file)[1]))

\* what the passes and the validation compute from the name of a file alone,
\* for each file name
facts ==
    [file \in FileNames |->
        [is_audio |-> is_audio(chars(file)),
         is_vox |-> is_vox(chars(file)),
         pair_key |-> pair_key(chars(file)),
         clean_base |-> clean_base(chars(file)),
         should_move_to_manual |-> should_move_to_manual(chars(file)),
         heuristic_reason |-> heuristic_reason(chars(file)),
         validate_key |-> validate_key(chars(file)),
         names_vox |-> vox_search(lower(chars(file)))]]

\* a slip: every file opens an entry of its own, equal keys are not merged
add_base_name_unmerged(base_names, key, file, vox) ==
    Append(base_names,
           [key |-> key,
            vox |-> IF vox THEN <<file>> ELSE <<>>,
            non_vox |-> IF vox THEN <<>> ELSE <<file>>])

\* base_names[key]['vox' or 'non_vox'].append(file); base_names is kept as the
\* sequence of its entries in insertion order
add_base_name(base_names, key, file, vox) ==
    LET here == {i \in DOMAIN base_names : base_names[i].key = key}
        put(e) == IF vox THEN [e EXCEPT !.vox = Append(@, file)]
                  ELSE [e EXCEPT !.non_vox = Append(@, file)]
    IN  IF here = {}
        THEN Append(base_names, put([key |-> key, vox |-> <<>>, non_vox |-> <<>>]))
        ELSE [i \in DOMAIN base_names |->
                 IF i \in here THEN put(base_names[i]) ELSE base_names[i]]

\* first pass of find_with_vox_pairs: collect the base names
RECURSIVE collect_base_names(_, _)
collect_base_names(files, base_names) ==
    IF files = <<>> THEN base_names
    ELSE collect_base_names(
             Tail(files),
             add_base_name(base_names, facts[Head(files)].pair_key, Head(files),
                           facts[Head(files)].is_vox))

\* the non-vox files of one group, each with its reason
with_reason(files, reason) == [i \in DOMAIN files |-> <<files[i], reason>>]

\* second pass of find_with_vox_pairs: the pairs and the vocal files
RECURSIVE identify_pairs(_, _)
identify_pairs(base_names, acc) ==
    IF base_names = <<>> THEN acc
    ELSE LET vox_files == Head(base_names).vox
             non_vox_files == Head(base_names).non_vox
         IN  identify_pairs(
                 Tail(base_names),
                 IF vox_files # <<>> /\ non_vox_files # <<>>
                 THEN [manual_pairs |-> acc.manual_pairs
                                        \o with_reason(non_vox_files, VocalOrInstrumental),
                       vocal_files |-> acc.vocal_files \o vox_files]
                 ELSE IF vox_files # <<>>
                 THEN [acc EXCEPT !.vocal_files = @ \o vox_files]
                 ELSE acc)

find_with_vox_pairs(files) ==
    identify_pairs(collect_base_names(files, <<>>),
                   [manual_pairs |-> <<>>, vocal_files |-> <<>>])

(***************************************************************************)
(* The triage passes of process_audio_files                                *)
(***************************************************************************)
\* to_manual.add(file); manual_reasons[file] = reason
mark_manual(d, file, reason) ==
    [d EXCEPT !.to_manual = @ \cup {file},
              !.manual_reasons = (file :> reason) @@ @]

\* a slip: only the files already sent to processing count as classified
classified_process_only(d, file) == file \in d.to_process

classified(d, file) == file \in d.to_manual \/ file \in d.to_process

RECURSIVE mark_pairs(_, _)
mark_pairs(manual_pairs, d) ==
    IF manual_pairs = <<>> THEN d
    ELSE mark_pairs(Tail(manual_pairs),
                    mark_manual(d, Head(manual_pairs)[1], Head(manual_pairs)[2]))

\* first pass: the vox pairs and the confirmed vocal files
vox_pair_pass(audio_files) ==
    LET found == find_with_vox_pairs(audio_files)
        d == mark_pairs(found.manual_pairs,
                        [to_process |-> {}, to_manual |-> {}, manual_reasons |-> <<>>])
    IN  [d EXCEPT !.to_process =
             @ \cup {found.vocal_files[i] : i \in DOMAIN found.vocal_files}]

\* a slip: a file joins the group before it only, as when grouping the
\* neighbours of an unsorted list
add_version_group_adjacent(base_names, key, file) ==
    IF base_names # <<>> /\ base_names[Len(base_names)].key = key
    THEN [base_names EXCEPT ![Len(base_names)].files = Append(@, file)]
    ELSE Append(base_names, [key |-> key, files |-> <<file>>])

\* base_names[clean_base].append(file), in insertion order
add_version_group(base_names, key, file) ==
    LET here == {i \in DOMAIN base_names : base_names[i].key = key}
    IN  IF here = {}
        THEN Append(base_names, [key |-> key, files |-> <<file>>])
        ELSE [i \in DOMAIN base_names |->
                 IF i \in here THEN [base_names[i] EXCEPT !.files = Append(@, file)]
                 ELSE base_names[i]]

RECURSIVE group_versions(_, _)
group_versions(files, base_names) ==
    IF files = <<>> THEN base_names
    ELSE group_versions(Tail(files),
                        add_version_group(base_names, facts[Head(files)].clean_base, Head(files)))

RECURSIVE mark_all(_, _, _)
mark_all(files, reason, d) ==
    IF files = <<>> THEN d
    ELSE mark_all(Tail(files), reason, mark_manual(d, Head(files), reason))

\* a slip: the first file of a conflicting group is kept as the original
conflicting_but_first(files) == IF Len(files) > 1 THEN Tail(files) ELSE <<>>

\* a slip: a group of one file counts as a conflict
conflicting_from_one(files) == IF Len(files) > 0 THEN files ELSE <<>>

\* the files of a versioning group that go to manual
conflicting(files) == IF Len(files) > 1 THEN files ELSE <<>>

RECURSIVE mark_conflicts(_, _)
mark_conflicts(base_names, d) ==
    IF base_names = <<>> THEN d
    ELSE mark_conflicts(Tail(base_names),
                        mark_all(conflicting(Head(base_names).files), Versioning, d))

\* second pass: versioning conflicts among the remaining files
versioning_pass(audio_files, d) ==
    LET remaining_files == SelectSeq(audio_files, LAMBDA f : ~classified(d, f))
    IN  mark_conflicts(group_versions(remaining_files, <<>>), d)

\* third pass: each remaining file goes to manual review or to processing
RECURSIVE heuristic_pass(_, _)
heuristic_pass(audio_files, d) ==
    IF audio_files = <<>> THEN d
    ELSE LET file == Head(audio_files)
         IN  heuristic_pass(
                 Tail(audio_files),
                 IF classified(d, file) THEN d
                 ELSE IF facts[file].should_move_to_manual
                 THEN mark_manual(d, file, facts[file].heuristic_reason)
                 ELSE [d EXCEPT !.to_process = @ \cup {file}])

triage(audio_files) ==
    heuristic_pass(audio_files, versioning_pass(audio_files, vox_pair_pass(audio_files)))

(***************************************************************************)
(* validate_file_lists                                                     *)
(***************************************************************************)
\* a slip: the manual files are grouped by the pass-2 base name (digits
\* stripped, case kept) instead of the validation key
manual_group_by_clean_base(base_name, to_manual) ==
    {f \in to_manual : facts[f].clean_base = base_name}

manual_group(base_name, to_manual) ==
    {f \in to_manual : facts[f].validate_key = base_name}

process_group(base_name, to_process) ==
    {f \in to_process : facts[f].validate_key = base_name}

\* a manual group with a "Vocal or Instrumental?" file and another reason
mixed_reasons(group, manual_reasons) ==
    /\ \E f \in group : manual_reasons[f] = VocalOrInstrumental
    /\ \E f \in group : manual_reasons[f] # VocalOrInstrumental

\* a manual group with a "Vocal or Instrumental?" file and no vox file of the
\* same base name in processing
no_vox_partner(base_name, group, to_process, manual_reasons) ==
    /\ \E f \in group : manual_reasons[f] = VocalOrInstrumental
    /\ ~\E f \in process_group(base_name, to_process) : facts[f].names_vox

\* a file in processing with a related manual file that has another reason
related_other_reason(base_name, to_manual, manual_reasons) ==
    \E f \in manual_group(base_name, to_manual) : manual_reasons[f] # VocalOrInstrumental

validate_file_lists(all_files, to_process, to_manual, manual_reasons) ==
    /\ \A m \in to_manual :
           LET base_name == facts[m].validate_key
               group == manual_group(base_name, to_manual)
           IN  /\ ~mixed_reasons(group, manual_reasons)
               /\ ~no_vox_partner(base_name, group, to_process, manual_reasons)
    /\ \A p \in to_process : ~related_other_reason(facts[p].validate_key, to_manual, manual_reasons)

(***************************************************************************)
(* The inputs of a run                                                     *)
(***************************************************************************)
\* the largest number of files in the input directory
MaxBatch == 3

\* the largest number of exceptions the file operations of a run raise
MaxFaults == 2

\* the command lines: --debug, --artist, --instrumental
ArgSets ==
    {[debug |-> FALSE, artist |-> <<>>, force_instrumental |-> FALSE],
     [debug |-> TRUE, artist |-> <<>>, force_instrumental |-> FALSE],
     [debug |-> FALSE, artist |-> <<"d", "j">>, force_instrumental |-> TRUE]}

\* the lengths in milliseconds of the audio that decoding a file may yield
Durations == {119999, 120000}

\* the files shorter than this many milliseconds are excluded
MIN_DURATION_MS == 120000

\* new_filename of the loop over to_process (and of the report), for each
\* file name and command line
output_name ==
    [file \in FileNames, a \in ArgSets |->
        clean_filename(chars(file), a.force_instrumental \/ is_instrumental(chars(file)),
                       a.artist)]

\* the orders in which os.listdir may enumerate a set of files
Orders(S) ==
    {o \in [1..Cardinality(S) -> S] : \A i, j \in DOMAIN o : i # j => o[i] # o[j]}

\* audio_files: the files of the directory that end in .mp3 or .wav
audio_files_in(dir) == {f \in dir : facts[f].is_audio}

(***************************************************************************)
(* process_audio_files as a state machine                                  *)
(***************************************************************************)
VARIABLES
    input_dir,        \* the names of the files in the input directory
    args,             \* the command line of the run
    pc,               \* "start", "validate", "aborted", "execute" or "done"
    to_process,       \* the files triage sends to processing
    to_manual,        \* the files triage sends to manual review
    manual_reasons,   \* the reason of each file of to_manual
    valid,            \* "unknown", then validate_file_lists "accepted" or "rejected"
    manual_seen,      \* the files the loop over to_manual has handled
    process_seen,     \* the files the loop over to_process has handled
    processed_files,  \* the files converted and exported
    manual_files,     \* the files copied to the manual directory
    excluded_files,   \* the excluded files: ['short'] and ['error']
    duration_ms,      \* len(audio) of each file the run has decoded
    new_filenames,    \* the new_filename computed for a file
    caught,           \* the files whose processing raised an exception
    manual_dir,       \* the names of the files in the manual directory
    excluded_dir,     \* the names of the files in the Excluded directory
    processed_dir,    \* the names of the files in the processed directory
    report,           \* the tallies handed to create_pdf_report
    faults,           \* the number of exceptions the file operations have raised
    norm              \* a normalizer under test: its name, its input, its outputs

triage_vars == <<to_process, to_manual, manual_reasons>>

tally_vars == <<processed_files, manual_files, excluded_files>>

trace_vars == <<duration_ms, new_filenames, caught>>

dir_vars == <<manual_dir, excluded_dir, processed_dir>>

vars == <<input_dir, args, pc, triage_vars, valid, manual_seen, process_seen,
          tally_vars, trace_vars, dir_vars, report, faults, norm>>

\* no normalizer is under test
NoNormalizer == [fn |-> "none", x |-> <<>>, out |-> <<>>]

Init ==
    /\ input_dir \in {S \in SUBSET FileNames : Cardinality(S) <= MaxBatch}
    /\ args \in ArgSets
    /\ pc = "start"
    /\ to_process = {}
    /\ to_manual = {}
    /\ manual_reasons = <<>>
    /\ valid = "unknown"
    /\ manual_seen = {}
    /\ process_seen = {}
    /\ processed_files = {}
    /\ manual_files = {}
    /\ excluded_files = [short |-> {}, error |-> {}]
    /\ duration_ms = <<>>
    /\ new_filenames = <<>>
    /\ caught = {}
    /\ manual_dir = {}
    /\ excluded_dir = {}
    /\ processed_dir = {}
    /\ report = <<>>
    /\ faults = 0
    /\ norm = NoNormalizer

\* the arguments of create_pdf_report
tally(manual_entries, processed, manual, excluded) ==
    [manual_entries |-> manual_entries, processed_files |-> processed,
     manual_files |-> manual, excluded_files |-> excluded]

manual_entries_of(files, reasons) == {<<f, reasons[f]>> : f \in files}

\* the directory is listed, in any order, and the three passes classify the
\* files; a directory without audio files ends the run
Triage ==
    /\ pc = "start"
    /\ \E audio_files \in Orders(audio_files_in(input_dir)) :
           IF audio_files = <<>>
           THEN /\ pc' = "done"
                /\ UNCHANGED triage_vars
           ELSE /\ pc' = "validate"
                /\ to_process' = triage(audio_files).to_process
                /\ to_manual' = triage(audio_files).to_manual
                /\ manual_reasons' = triage(audio_files).manual_reasons
    /\ UNCHANGED <<input_dir, args, norm, valid, manual_seen, process_seen, tally_vars,
                   trace_vars, dir_vars, report, faults>>

\* a slip: a rejected categorization does not stop the run
after_validation_no_abort(ok, debug) == IF debug THEN "done" ELSE "execute"

\* what the run does with the result of validate_file_lists
after_validation(ok, debug) ==
    IF ~ok THEN "aborted" ELSE IF debug THEN "done" ELSE "execute"

\* the gate: a rejected categorization raises, a debug run reports and
\* returns, any other run goes on to the file operations
Validate ==
    /\ pc = "validate"
    /\ LET ok == validate_file_lists(to_process \cup to_manual, to_process, to_manual,
                                     manual_reasons)
       IN  /\ valid' = IF ok THEN "accepted" ELSE "rejected"
           /\ pc' = after_validation(ok, args.debug)
           /\ report' = IF ok /\ args.debug
                        THEN <<tally(manual_entries_of(to_manual, manual_reasons),
                                     to_process, to_manual, excluded_files)>>
                        ELSE report
    /\ UNCHANGED <<input_dir, args, norm, triage_vars, manual_seen, process_seen, tally_vars,
                   trace_vars, dir_vars, faults>>

\* the exceptions raised when the operations of a turn end as given
raised(outcomes) == Cardinality({i \in DOMAIN outcomes : ~outcomes[i]})

\* the operations of a turn end as given, within the bound on exceptions
fail(outcomes) ==
    /\ faults + raised(outcomes) <= MaxFaults
    /\ faults' = faults + raised(outcomes)

\* one turn of the loop over to_manual: the copy succeeds or raises
CopyManual(file, copy_ok) ==
    /\ pc = "execute"
    /\ fail(<<copy_ok>>)
    /\ file \in to_manual \ manual_seen
    /\ manual_seen' = manual_seen \cup {file}
    /\ IF copy_ok
       THEN /\ manual_dir' = manual_dir \cup {file}
            /\ manual_files' = manual_files \cup {file}
            /\ UNCHANGED excluded_files
       ELSE /\ excluded_files' = [excluded_files EXCEPT !.error = @ \cup {file}]
            /\ UNCHANGED <<manual_dir, manual_files>>
    /\ UNCHANGED <<input_dir, args, norm, pc, triage_vars, valid, process_seen, processed_files,
                   trace_vars, excluded_dir, processed_dir, report>>

\* the except block of the loop over to_process: the file is copied to
\* Excluded, and an exception of that copy is caught and printed
handle_exception(file, handler_copy_ok) ==
    /\ caught' = caught \cup {file}
    /\ IF handler_copy_ok
       THEN /\ excluded_dir' = excluded_dir \cup {file}
            /\ excluded_files' = [excluded_files EXCEPT !.error = @ \cup {file}]
       ELSE UNCHANGED <<excluded_dir, excluded_files>>

\* the duration test of the loop over to_process
too_short(ms) == ms < MIN_DURATION_MS

\* a turn of the loop over to_process whose decoding raises
DecodeFails(file, handler_copy_ok) ==
    /\ pc = "execute"
    /\ manual_seen = to_manual
    /\ file \in to_process \ process_seen
    /\ process_seen' = process_seen \cup {file}
    /\ fail(<<FALSE, handler_copy_ok>>)
    /\ handle_exception(file, handler_copy_ok)
    /\ UNCHANGED <<input_dir, args, norm, pc, triage_vars, valid, manual_seen, processed_files,
                   manual_files, duration_ms, new_filenames, manual_dir, processed_dir,
                   report>>

\* a turn of the loop over to_process on a file decoded to ms milliseconds of
\* audio: a short file is copied to Excluded (copy_ok), any other is renamed
\* and exported (export_ok); an exception goes to the except block
ProcessFile(file, ms, step_ok, handler_copy_ok) ==
    /\ pc = "execute"
    /\ manual_seen = to_manual
    /\ file \in to_process \ process_seen
    /\ process_seen' = process_seen \cup {file}
    /\ fail(IF step_ok THEN <<>> ELSE <<FALSE, handler_copy_ok>>)
    /\ duration_ms' = (file :> ms) @@ duration_ms
    /\ IF too_short(ms)
       THEN /\ UNCHANGED <<new_filenames, processed_files, processed_dir>>
            /\ IF step_ok
               THEN /\ excluded_dir' = excluded_dir \cup {file}
                    /\ excluded_files' = [excluded_files EXCEPT !.short = @ \cup {file}]
                    /\ UNCHANGED caught
               ELSE handle_exception(file, handler_copy_ok)
       ELSE LET new_filename == output_name[file, args]
            IN  /\ new_filenames' = (file :> new_filename) @@ new_filenames
                /\ IF step_ok
                   THEN /\ processed_dir' = processed_dir \cup {new_filename}
                        /\ processed_files' = processed_files \cup {file}
                        /\ UNCHANGED <<caught, excluded_dir, excluded_files>>
                   ELSE /\ handle_exception(file, handler_copy_ok)
                        /\ UNCHANGED <<processed_dir, processed_files>>
    /\ UNCHANGED <<input_dir, args, norm, pc, triage_vars, valid, manual_seen, manual_files,
                   manual_dir, report>>

\* after both loops the tally goes to create_pdf_report
Report ==
    /\ pc = "execute"
    /\ manual_seen = to_manual
    /\ process_seen = to_process
    /\ report' = <<tally(manual_entries_of(to_manual, manual_reasons), processed_files,
                         manual_files, excluded_files)>>
    /\ pc' = "done"
    /\ UNCHANGED <<input_dir, args, norm, triage_vars, valid, manual_seen, process_seen,
                   tally_vars, trace_vars, dir_vars, faults>>

Next ==
    \/ Triage
    \/ Validate
    \/ \E file \in to_manual, copy_ok \in BOOLEAN : CopyManual(file, copy_ok)
    \/ \E file \in to_process, handler_copy_ok \in BOOLEAN :
           DecodeFails(file, handler_copy_ok)
    \/ \E file \in to_process, ms \in Durations, step_ok, handler_copy_ok \in BOOLEAN :
           ProcessFile(file, ms, step_ok, handler_copy_ok)
    \/ Report

Spec == Init /\ [][Next]_vars

(***************************************************************************)
(* validate_file_lists on its own: any candidate decision set              *)
(***************************************************************************)
Reasons == {VocalOrInstrumental, Versioning, LengthVariant, NumericFilename, Unknown}

\* a candidate gives every file of a batch either "Process" or a manual reason
Candidates(files) == [files -> {"Process"} \cup Reasons]

\* validate_file_lists is about to be called on a candidate decision set
GateInit ==
    /\ input_dir \in {S \in SUBSET FileNames : S # {} /\ Cardinality(S) <= MaxBatch}
    /\ args \in {a \in ArgSets : ~a.force_instrumental}
    /\ pc = "validate"
    /\ \E c \in Candidates(input_dir) :
           /\ to_process = {f \in input_dir : c[f] = "Process"}
           /\ to_manual = {f \in input_dir : c[f] # "Process"}
           /\ manual_reasons = [f \in {g \in input_dir : c[g] # "Process"} |-> c[f]]
    /\ valid = "unknown"
    /\ manual_seen = {}
    /\ process_seen = {}
    /\ processed_files = {}
    /\ manual_files = {}
    /\ excluded_files = [short |-> {}, error |-> {}]
    /\ duration_ms = <<>>
    /\ new_filenames = <<>>
    /\ caught = {}
    /\ manual_dir = {}
    /\ excluded_dir = {}
    /\ processed_dir = {}
    /\ report = <<>>
    /\ faults = 0
    /\ norm = NoNormalizer

GateNext == Validate

GateSpec == GateInit /\ [][GateNext]_vars

(***************************************************************************)
(* The normalizers on their own: applied to a name, then to their output   *)
(***************************************************************************)
MaxTokens == 4

NormTokens ==
    {<<"s", "o", "n", "g">>, S_with, S_vox, <<"_">>, <<".">>, <<" ">>, <<"+">>, <<"2">>}

RECURSIVE Stems(_)
Stems(n) ==
    IF n = 0 THEN {<<>>}
    ELSE Stems(n - 1) \cup {s \o t : s \in Stems(n - 1), t \in NormTokens}

\* the file names the normalizers are tried on
NormInputs == {stem \o S_mp3 : stem \in Stems(MaxTokens) \ {<<>>}}

Normalizers == {"clean_base_name", "pair_key"}

normalize(fn, x) == IF fn = "clean_base_name" THEN clean_base_name(x) ELSE pair_key(x)

NormInit ==
    /\ norm \in [fn : Normalizers, x : NormInputs, out : {<<>>}]
    /\ input_dir = {}
    /\ args \in {a \in ArgSets : ~a.debug /\ ~a.force_instrumental}
    /\ pc = "start"
    /\ to_process = {}
    /\ to_manual = {}
    /\ manual_reasons = <<>>
    /\ valid = "unknown"
    /\ manual_seen = {}
    /\ process_seen = {}
    /\ processed_files = {}
    /\ manual_files = {}
    /\ excluded_files = [short |-> {}, error |-> {}]
    /\ duration_ms = <<>>
    /\ new_filenames = <<>>
    /\ caught = {}
    /\ manual_dir = {}
    /\ excluded_dir = {}
    /\ processed_dir = {}
    /\ report = <<>>
    /\ faults = 0

\* the normalizer is applied to the name, then to what it returned
Normalize ==
    /\ Len(norm.out) < 2
    /\ norm' = [norm EXCEPT !.out =
                    Append(@, normalize(norm.fn, IF @ = <<>> THEN norm.x ELSE @[Len(@)]))]
    /\ UNCHANGED <<input_dir, args, pc, triage_vars, valid, manual_seen, process_seen,
                   tally_vars, trace_vars, dir_vars, report, faults>>

NormNext == Normalize

NormSpec == NormInit /\ [][NormNext]_vars

(***************************************************************************)
(* Properties                                                              *)
(***************************************************************************)
audio_files == audio_files_in(input_dir)

\* triage has run (on a directory without audio files it classifies nothing)
Triaged == pc # "start"

\* the file is left to the later passes by the vox-pair pass: it has no vox
\* pattern and no file with a vox pattern has its key
pending_after_pairs(f) ==
    /\ ~facts[f].is_vox
    /\ ~\E a \in audio_files : facts[a].is_vox /\ facts[a].pair_key = facts[f].pair_key

\* the file is left to the third pass by the versioning-conflict pass
pending_after_versioning(f) ==
    /\ pending_after_pairs(f)
    /\ ~\E b \in audio_files :
           b # f /\ pending_after_pairs(b) /\ facts[b].clean_base = facts[f].clean_base

in_manual(f, reason) == f \in to_manual /\ f \notin to_process /\ manual_reasons[f] = reason

in_process(f) == f \in to_process /\ f \notin to_manual

\* C1: in a run that passed validation no two files of to_process have the
\* same output name
C1_NoDoubleOutput ==
    valid = "accepted" =>
        \A a, b \in to_process : a # b => output_name[a, args] # output_name[b, args]

\* C2: once validate_file_lists has rejected the categorization the run is
\* aborted: nothing is or gets copied, converted or reported
C2_NoExecutionAfterFailedValidation ==
    valid = "rejected" =>
        /\ pc = "aborted"
        /\ manual_seen = {} /\ process_seen = {}
        /\ manual_dir = {} /\ excluded_dir = {} /\ processed_dir = {}
        /\ report = <<>>

C2_Witness == valid = "rejected" /\ pc = "aborted" /\ to_process # {} /\ to_manual # {}

\* C3: after triage every audio file is in exactly one of to_process and
\* to_manual, and the manual files are the ones that have a reason
C3_Partition ==
    Triaged =>
        /\ to_process \cap to_manual = {}
        /\ to_process \cup to_manual = audio_files
        /\ DOMAIN manual_reasons = to_manual

C3_Witness == pc = "validate" /\ to_process # {} /\ Cardinality(to_manual) >= 2

\* C4: of two files with the same vox-pair key, one with a vox pattern and one
\* without, the first is in to_process and the second in to_manual with the
\* reason "Vocal or Instrumental?", after triage and at every later step
C4_VoxPairLaw ==
    Triaged =>
        \A a, b \in audio_files :
            facts[a].pair_key = facts[b].pair_key /\ facts[a].is_vox /\ ~facts[b].is_vox
                => in_process(a) /\ in_manual(b, VocalOrInstrumental)

C4_Witness ==
    /\ pc = "done"
    /\ \E a, b \in audio_files :
           /\ facts[a].pair_key = facts[b].pair_key /\ facts[a].is_vox /\ ~facts[b].is_vox
           /\ in_process(a) /\ in_manual(b, VocalOrInstrumental)

\* the batch of the scenario
Scenario == {"song (2020).mp3", "song_with_vox-998213.mp3", "song no vox.mp3"}

C6_VersioningLaw ==
    Triaged =>
        \A a, b \in audio_files :
            /\ a # b /\ pending_after_pairs(a) /\ pending_after_pairs(b)
            /\ facts[a].clean_base = facts[b].clean_base
            => in_manual(a, Versioning) /\ in_manual(b, Versioning)

C6_Witness ==
    /\ pc = "done"
    /\ \E a, b \in audio_files :
           /\ a # b /\ pending_after_pairs(a) /\ pending_after_pairs(b)
           /\ facts[a].clean_base = facts[b].clean_base
           /\ ~is_versioned(chars(a))
           /\ in_manual(a, Versioning) /\ in_manual(b, Versioning)

\* what the first matching rule of the third pass gives each file name
first_rule ==
    [f \in FileNames |->
        IF is_versioned(chars(f)) THEN Versioning
        ELSE IF is_length_variant(chars(f)) THEN LengthVariant
        ELSE IF is_numeric_filename(chars(f)) THEN NumericFilename
        ELSE "Process"]

\* C7: a file the first two passes leave unclassified is classified by the
\* first rule it matches, versioning before length variant before numeric
\* file name, and goes to to_process when it matches none
C7_FirstMatchingRule ==
    Triaged =>
        \A f \in audio_files :
            pending_after_versioning(f) =>
                IF first_rule[f] = "Process" THEN in_process(f)
                ELSE in_manual(f, first_rule[f])

C7_Witness ==
    /\ pc = "validate"
    /\ audio_files = {"99.mp3", "long v2.mp3", "song.mp3"}
    /\ in_manual("99.mp3", NumericFilename)
    /\ in_manual("long v2.mp3", Versioning)
    /\ is_length_variant(chars("long v2.mp3"))
    /\ in_process("song.mp3")

\* C8: a file decoded to less than the minimum length is recorded in
\* excluded_files['short'], gets no output name and is not exported; a file of
\* the minimum length or more is not recorded there
C8_ShortIsExcluded ==
    \A f \in process_seen \cap DOMAIN duration_ms :
        IF duration_ms[f] < MIN_DURATION_MS
        THEN /\ f \in excluded_files.short
             /\ f \notin DOMAIN new_filenames
             /\ f \notin processed_files
        ELSE f \notin excluded_files.short

\* C9: a file whose processing raised is recorded in excluded_files['error'],
\* and a run that executes ends with every file handled and a report
C9_FailureIsRecorded ==
    /\ \A f \in caught : f \in excluded_files.error
    /\ pc = "done" /\ valid = "accepted" /\ ~args.debug =>
           manual_seen = to_manual /\ process_seen = to_process /\ Len(report) = 1

\* C10: every order in which the directory may be listed gives the same
\* to_process, the same to_manual and the same reasons
C10_OrderIndependent ==
    pc = "validate" =>
        \A o \in Orders(audio_files) :
            triage(o) = [to_process |-> to_process, to_manual |-> to_manual,
                         manual_reasons |-> manual_reasons]

C10_Witness ==
    /\ pc = "validate"
    /\ Cardinality(audio_files) = 3
    /\ \E f, g \in to_manual : manual_reasons[f] # manual_reasons[g]
    /\ to_process # {}

\* a base-name group of manual files that holds a "Vocal or Instrumental?"
\* file and a file with another reason
mixed_manual_group ==
    \E f, g \in to_manual :
        /\ facts[f].validate_key = facts[g].validate_key
        /\ manual_reasons[f] = VocalOrInstrumental
        /\ manual_reasons[g] # VocalOrInstrumental

\* C11: whatever the candidate decision set, when a base-name group of the
\* manual files holds a "Vocal or Instrumental?" file together with a file
\* that has a different reason, validate_file_lists returns False
C11_GateLaw ==
    (valid # "unknown" /\ mixed_manual_group) => valid = "rejected"

C11_Witness ==
    /\ valid = "rejected"
    /\ mixed_manual_group
    /\ \E f \in to_manual : manual_reasons[f] = Versioning

\* C12: a normalizer (clean_base_name, the grouping key of
\* find_with_vox_pairs) applied to its own output returns that output:
\* normalize(normalize(x)) = normalize(x)
C12_Idempotent ==
    Len(norm.out) = 2 => norm.out[2] = norm.out[1]

\* C13: the decisions of the three triage passes always pass
\* validate_file_lists, so the run never raises the validation failure
C13_ValidationNeverFails ==
    valid # "rejected"

\* the categories of the final tally that count a file
categories_of(t, file) ==
    {c \in {"processed", "manual", "short", "error"} :
        \/ c = "processed" /\ file \in t.processed_files
        \/ c = "manual" /\ \E e \in t.manual_entries : e[1] = file
        \/ c = "short" /\ file \in t.excluded_files.short
        \/ c = "error" /\ file \in t.excluded_files.error}

\* C14: when a run that is not a debug run has completed, whatever copies,
\* decodes and exports failed, the tally handed to the report counts every
\* audio file of the directory in exactly one of processed_files, the manual
\* entries, excluded_files['short'] and excluded_files['error']
C14_TallyPartition ==
    (pc = "done" /\ ~args.debug /\ report # <<>>) =>
        \A file \in audio_files : Cardinality(categories_of(report[1], file)) = 1

====
